---- MODULE Spec2Model ----
(***************************************************************************)
(* The Hodgkin-Huxley simulator of lampe/simulators/hh.py: voltage_trace   *)
(* (exponential-Euler integration of V, n, m, h, p), summarize (spike      *)
(* count and window moments) and HH.__call__ that chains them.             *)
(*                                                                         *)
(* Numbers.  The program computes in IEEE float64.  The model computes in  *)
(* decimal fixed point: a finite value v stands for v / Scale, every       *)
(* operation rounds to the nearest multiple of 1 / Scale, a result whose   *)
(* magnitude exceeds MaxFin overflows to an infinity, and PInf, NInf and   *)
(* NaN follow the IEEE rules (x/0, inf-inf, 0*inf, NaN propagation).       *)
(* Signed zeros are not distinguished.  Times (duration, time_step,        *)
(* padding and the grid of np.arange) are exact multiples of 1 / Scale.    *)
(***************************************************************************)
EXTENDS Integers, Sequences, FiniteSets, TLC

Scale == 1000
MaxFin == 100000000

PInf == MaxFin + 1
NInf == -PInf
NaN == MaxFin + 2

IsNaN(a) == a = NaN
IsInf(a) == a = PInf \/ a = NInf
IsFin(a) == -MaxFin <= a /\ a <= MaxFin

Abs(a) == IF a < 0 THEN -a ELSE a
Sgn(a) == IF a > 0 THEN 1 ELSE IF a < 0 THEN -1 ELSE 0

\* overflow of a finite result to an infinity
Sat(v) == IF v > MaxFin THEN PInf ELSE IF v < -MaxFin THEN NInf ELSE v

FNeg(a) == IF IsNaN(a) THEN NaN ELSE -a

FAdd(a, b) ==
    IF IsNaN(a) \/ IsNaN(b) THEN NaN
    ELSE IF IsInf(a) THEN (IF IsInf(b) /\ a # b THEN NaN ELSE a)
    ELSE IF IsInf(b) THEN b
    ELSE Sat(a + b)

FSub(a, b) == FAdd(a, FNeg(b))

\* the product of two finite values, rounded to nearest
MulFin(a, b) ==
    LET x  == Abs(a)
        y  == Abs(b)
        x1 == x \div Scale
        x0 == x % Scale
        y1 == y \div Scale
        y0 == y % Scale
        s  == Sgn(a) * Sgn(b)
    IN  IF x1 > 0 /\ y1 > (MaxFin \div Scale) \div x1
        THEN s * PInf
        ELSE Sat(s * (x1 * y1 * Scale + x1 * y0 + x0 * y1
                      + (2 * x0 * y0 + Scale) \div (2 * Scale)))

FMul(a, b) ==
    IF IsNaN(a) \/ IsNaN(b) THEN NaN
    ELSE IF IsInf(a) \/ IsInf(b)
         THEN (IF a = 0 \/ b = 0 THEN NaN ELSE Sgn(a) * Sgn(b) * PInf)
    ELSE MulFin(a, b)

\* the quotient of two finite values, b # 0, rounded to nearest: long
\* division, one decimal digit of the fraction at a time
DivFin(a, b) ==
    LET x  == Abs(a)
        y  == Abs(b)
        s  == Sgn(a) * Sgn(b)
        q  == x \div y
        r0 == x % y
        d1 == (r0 * 10) \div y
        r1 == (r0 * 10) % y
        d2 == (r1 * 10) \div y
        r2 == (r1 * 10) % y
        d3 == (r2 * 10) \div y
        r3 == (r2 * 10) % y
        up == IF 2 * r3 >= y THEN 1 ELSE 0
    IN  IF q > MaxFin \div Scale
        THEN s * PInf
        ELSE Sat(s * (q * Scale + d1 * 100 + d2 * 10 + d3 + up))

FDiv(a, b) ==
    IF IsNaN(a) \/ IsNaN(b) THEN NaN
    ELSE IF IsInf(a) THEN (IF IsInf(b) THEN NaN
                           ELSE IF b < 0 THEN -a ELSE a)
    ELSE IF IsInf(b) THEN 0
    ELSE IF b = 0 THEN (IF a = 0 THEN NaN ELSE Sgn(a) * PInf)
    ELSE DivFin(a, b)

\* comparisons: any comparison with NaN is false
FLt(a, b) == ~IsNaN(a) /\ ~IsNaN(b) /\ a < b
FLe(a, b) == ~IsNaN(a) /\ ~IsNaN(b) /\ a <= b

RECURSIVE SqrtSearch(_, _, _)
SqrtSearch(v, lo, hi) ==
    IF lo >= hi THEN lo
    ELSE LET mid == (lo + hi + 1) \div 2
         IN  IF mid * mid <= v THEN SqrtSearch(v, mid, hi)
             ELSE SqrtSearch(v, lo, mid - 1)

\* floor of the square root of an integer 0 <= v < 2^31
ISqrt(v) == SqrtSearch(v, 0, 46340)

FSqrt(a) ==
    IF IsNaN(a) \/ a < 0 THEN NaN
    ELSE IF a = PInf THEN PInf
    ELSE IF a <= 2000000 THEN ISqrt(a * Scale)
    ELSE ISqrt(a \div 10) * 100

\* e^k for k = 0 .. 11, in units of 1 / Scale
ExpInt == << 1000, 2718, 7389, 20086, 54598, 148413, 403429, 1096633,
             2980958, 8103084, 22026466, 59874142 >>

\* e^(r / Scale) for 0 <= r < Scale: the Taylor polynomial of degree 8
ExpFrac(r) ==
    LET h8 == Scale + MulFin(r, Scale) \div 8
        h7 == Scale + MulFin(r, h8) \div 7
        h6 == Scale + MulFin(r, h7) \div 6
        h5 == Scale + MulFin(r, h6) \div 5
        h4 == Scale + MulFin(r, h5) \div 4
        h3 == Scale + MulFin(r, h4) \div 3
        h2 == Scale + MulFin(r, h3) \div 2
    IN  Scale + MulFin(r, h2)

\* e^(a / Scale) for a finite a >= 0
ExpPos(a) ==
    IF a \div Scale >= Len(ExpInt) THEN PInf
    ELSE FMul(ExpInt[(a \div Scale) + 1], ExpFrac(a % Scale))

exp(a) ==
    IF IsNaN(a) THEN NaN
    ELSE IF a = PInf THEN PInf
    ELSE IF a = NInf THEN 0
    ELSE IF a >= 0 THEN ExpPos(a)
    ELSE FDiv(Scale, ExpPos(-a))


(***************************************************************************)
(* Kinetics (voltage_trace, "# Kinetics").  Arguments and results are      *)
(* fixed-point values; tm is tau_max.                                      *)
(***************************************************************************)
C == 1000
E_Na == 53000
E_K == -107000

\* np.where(|x| < 1e-4, 1 - x / 2, x / (exp(x) - 1)); with a resolution of
\* 1 / Scale the first branch is taken exactly at x = 0
efun(x) ==
    IF IsFin(x) /\ 10 * Abs(x) < 1
    THEN FSub(Scale, FDiv(x, 2 * Scale))
    ELSE FDiv(x, FSub(exp(x), Scale))

\* alpha / (alpha + beta)
Fraction(a, b) == FDiv(a, FAdd(a, b))

alpha_n(x) == FDiv(FMul(32, efun(FMul(-200, FSub(x, 15000)))), 200)
beta_n(x) == FMul(500, exp(FDiv(FNeg(FSub(x, 10000)), 40000)))
tau_n(x) == FDiv(Scale, FAdd(alpha_n(x), beta_n(x)))
n_inf(x) == Fraction(alpha_n(x), beta_n(x))

alpha_m(x) == FDiv(FMul(320, efun(FMul(-250, FSub(x, 13000)))), 250)
beta_m(x) == FDiv(FMul(280, efun(FMul(200, FSub(x, 40000)))), 200)
tau_m(x) == FDiv(Scale, FAdd(alpha_m(x), beta_m(x)))
m_inf(x) == Fraction(alpha_m(x), beta_m(x))

alpha_h(x) == FMul(128, exp(FDiv(FNeg(FSub(x, 17000)), 18000)))
beta_h(x) == FDiv(4000, FAdd(Scale, exp(FMul(-200, FSub(x, 40000)))))
tau_h(x) == FDiv(Scale, FAdd(alpha_h(x), beta_h(x)))
h_inf(x) == Fraction(alpha_h(x), beta_h(x))

tau_p(tm, x) ==
    FDiv(tm, FAdd(FMul(3300, exp(FMul(50, FAdd(x, 35000)))),
                  exp(FMul(-50, FAdd(x, 35000)))))
p_inf(x) == FDiv(Scale, FAdd(Scale, exp(FMul(-100, FAdd(x, 35000)))))


(***************************************************************************)
(* Arrays.  An array is [shape, data]: data holds the rows along the last  *)
(* axis, the leading axes flattened in C order.                            *)
(***************************************************************************)
RECURSIVE Prod(_)
Prod(sh) == IF sh = <<>> THEN 1 ELSE Head(sh) * Prod(Tail(sh))

Front(sq) == SubSeq(sq, 1, Len(sq) - 1)
Last(sq) == sq[Len(sq)]

\* ceil(a / b) for b > 0
CeilDiv(a, b) == (a + b - 1) \div b

\* Arange with the end point included, as np.linspace would
ArangeClosed(start, stop, step) ==
    LET len == IF stop >= start THEN ((stop - start) \div step) + 1 ELSE 0
    IN  [k \in 1..len |-> start + (k - 1) * step]

\* np.arange(start, stop, step), step > 0: ceil((stop - start) / step)
\* points start + k * step
Arange(start, stop, step) ==
    LET len == IF stop > start THEN CeilDiv(stop - start, step) ELSE 0
    IN  [k \in 1..len |-> start + (k - 1) * step]

\* np.stack(vs, axis=-1) of a list of arrays of shape sh
Stack(vs, sh) ==
    [shape |-> sh \o <<Len(vs)>>,
     data  |-> [b \in 1..Prod(sh) |-> [k \in 1..Len(vs) |-> vs[k][b]]]]

\* a.squeeze() without an axis: every axis of size 1 is removed
SqueezeAll(a) ==
    [shape |-> SelectSeq(a.shape, LAMBDA d : d # 1), data |-> a.data]

\* a.squeeze(axis=0): the leading axis, of size 1, is removed
Squeeze0(a) == [shape |-> Tail(a.shape), data |-> a.data]

\* theta[..., i] for i in range(8)
g_Na(th) == th[1]
g_K(th) == th[2]
g_M(th) == th[3]
g_leak(th) == th[4]
tau_max(th) == th[5]
V_t(th) == th[6]
sigma(th) == th[7]
E_leak(th) == th[8]

Cube(a) == FMul(FMul(a, a), a)
Pow4(a) == FMul(FMul(FMul(a, a), a), a)

(***************************************************************************)
(* One iteration of the loop of voltage_trace, for one batch element.      *)
(***************************************************************************)
\* g_Na * m ** 3 * h + g_K * n ** 4 + g_M * p + g_leak
Conductance(th, nb, mb, hb, pb) ==
    FAdd(FAdd(FAdd(FMul(FMul(g_Na(th), Cube(mb)), hb),
                   FMul(g_K(th), Pow4(nb))),
              FMul(g_M(th), pb)),
         g_leak(th))

TauV(th, nb, mb, hb, pb) == FDiv(C, Conductance(th, nb, mb, hb, pb))

\* pad <= t < T - pad
Stim(c, t) == c.pad <= t /\ t < c.T - c.pad

\* the noise term without its scale sigma
NoiseTermUnscaled(th, c, z) == FDiv(z, FSqrt(c.dt))

\* sigma * np.random.randn(*V.shape) / dt ** 0.5, z the draw
NoiseTerm(th, c, z) == FDiv(FMul(sigma(th), z), FSqrt(c.dt))

VInf(th, c, t, tv, nb, mb, hb, pb, z) ==
    FDiv(FMul(tv,
              FAdd(FAdd(FAdd(FAdd(FAdd(
                  FMul(FMul(FMul(E_Na, g_Na(th)), Cube(mb)), hb),
                  FMul(FMul(E_K, g_K(th)), Pow4(nb))),
                  FMul(FMul(E_K, g_M(th)), pb)),
                  FMul(E_leak(th), g_leak(th))),
                  IF Stim(c, t) THEN c.I ELSE 0),
                  NoiseTerm(th, c, z))),
         C)

\* a forward Euler step g + (g_inf - g) * dt / tau in place of the
\* exponential update
ForwardEuler(g, ginf, tau, dt) ==
    FAdd(g, FDiv(FMul(FSub(ginf, g), dt), tau))

\* g_inf + (g - g_inf) * exp(-dt / tau): the exponential update of V and of
\* every gating variable
ExpUpdate(g, ginf, tau, dt) ==
    FAdd(ginf, FMul(FSub(g, ginf), exp(FDiv(-dt, tau))))


\* SteadyState with p taken at V_rel like n, m, h
SteadyStateRel(v0, vr) ==
    [V |-> v0, V_rel |-> vr,
     n |-> n_inf(vr), m |-> m_inf(vr), h |-> h_inf(vr), p |-> p_inf(vr),
     tau_V |-> 0, V_inf |-> 0]

\* the state of one batch element before the loop, given V and V_rel: the
\* gating variables at their steady state, p from the absolute voltage
SteadyState(v0, vr) ==
    [V |-> v0, V_rel |-> vr,
     n |-> n_inf(vr), m |-> m_inf(vr), h |-> h_inf(vr), p |-> p_inf(v0),
     tau_V |-> 0, V_inf |-> 0]

\* V = np.full_like(V_t, V_0); V_rel = V - V_t
InitElem(th, c) == SteadyState(c.V_0, FSub(c.V_0, V_t(th)))

\* The body of the loop for one batch element e, at time t, with the draw
\* z, one assignment after the other: tau_V (tv), V_inf (vi), V (Vn),
\* V_rel (Vr), then n, m, h, p.
Gates(th, c, tv, vi, Vn, Vr, e) ==
    [V |-> Vn, V_rel |-> Vr,
     n |-> ExpUpdate(e.n, n_inf(Vr), tau_n(Vr), c.dt),
     m |-> ExpUpdate(e.m, m_inf(Vr), tau_m(Vr), c.dt),
     h |-> ExpUpdate(e.h, h_inf(Vr), tau_h(Vr), c.dt),
     p |-> ExpUpdate(e.p, p_inf(Vn), tau_p(tau_max(th), Vn), c.dt),
     tau_V |-> tv, V_inf |-> vi]

\* Relative with V_rel left as the previous iteration computed it
RelativeStale(th, c, tv, vi, Vn, e) ==
    Gates(th, c, tv, vi, Vn, e.V_rel, e)

Relative(th, c, tv, vi, Vn, e) ==
    Gates(th, c, tv, vi, Vn, FSub(Vn, V_t(th)), e)

Voltage(th, c, tv, vi, e) ==
    Relative(th, c, tv, vi, ExpUpdate(e.V, vi, tv, c.dt), e)

Target(th, c, t, tv, e, z) ==
    Voltage(th, c, tv, VInf(th, c, t, tv, e.n, e.m, e.h, e.p, z), e)

StepElem(th, c, t, e, z) ==
    Target(th, c, t, TauV(th, e.n, e.m, e.h, e.p), e, z)

(***************************************************************************)
(* State.  pc is the position in HH.__call__: "call" (before               *)
(* voltage_trace), "loop" (inside its loop, i iterations done),            *)
(* "summarize" (summarize is about to run on x), "done" (x returned),      *)
(* "raised" (an exception left the call).  state holds, per batch         *)
(* element, the locals V, V_rel, n, m, h, p, tau_V and V_inf of            *)
(* voltage_trace.  The locals of voltage_trace                             *)
(* and of summarize (sm) keep their last values after the return; stim is  *)
(* the history of the stimulus indicator, one entry per iteration; call    *)
(* counts the invocations and first is what the first one returned.        *)
(***************************************************************************)
VARIABLES pc, theta, constants, summary, shape, state, timesteps, i,
          voltages, stim, x, sm, call, first

vars == <<pc, theta, constants, summary, shape, state, timesteps, i,
          voltages, stim, x, sm, call, first>>

locals == <<shape, state, timesteps, i, voltages, stim>>

MaxBatch == 2
MaxSteps == 5
MaxLen == 4

\* parameter rows <<g_Na, g_K, g_M, g_leak, tau_max, V_t, sigma, E_leak>>:
\* the middle of the prior's bounds (with noise), low conductances without
\* noise, all conductances zero, a negative leak conductance, the upper
\* conductance bounds without noise
ThetaRows ==
    << <<40000, 7500, 300, 300, 1525000, -65000, 75, -67500>>,
       <<500, 100, 100, 100, 50000, -40000, 0, -35000>>,
       <<0, 0, 0, 0, 50000, -65000, 0, -67500>>,
       <<0, 0, 0, -300, 50000, -65000, 0, -75000>>,
       <<80000, 15000, 600, 600, 3000000, -90000, 0, -100000>> >>

BatchShapes == {<<>>, <<1, 1>>} \cup {<<b>> : b \in 1..MaxBatch}

\* the parameter arrays tried: shape [..., 8], rows taken from ThetaRows
Thetas ==
    {[shape |-> bs \o <<8>>,
      data  |-> [k \in 1..Prod(bs) |->
                    ThetaRows[((s + k - 2) % Len(ThetaRows)) + 1]]] :
        bs \in BatchShapes, s \in 1..Len(ThetaRows)}

\* (duration, time_step, padding) tried, in units of 1 / Scale
Grids ==
    { <<0, 1000, 0>>, <<500, 1000, 0>>, <<80, 20, 20>>, <<80, 20, 0>>, <<2500, 1000, 500>>,
      <<2500, 1000, 1500>>, <<3000, 1000, 1000>>, <<4000, 1000, 2000>>,
      <<5000, 1000, 1500>>, <<5000, 1000, 2000>>, <<5500, 1000, 1500>>,
      <<6500, 1000, 2000>> }

\* the constants tried: at most MaxSteps grid points
Constants ==
    {c \in [T : {g[1] : g \in Grids}, dt : {g[2] : g \in Grids},
            pad : {g[3] : g \in Grids}, V_0 : {-70000}, I : {3248}] :
        /\ <<c.T, c.dt, c.pad>> \in Grids
        /\ Len(Arange(0, c.T, c.dt)) <= MaxSteps}

\* the values np.random.randn may return
NoiseVals == {-1000, 1000}

\* the number of batch elements
B == Prod(Front(theta.shape))

NoArray == [shape |-> <<>>, data |-> <<>>]
NoFrame == [x |-> NoArray, t |-> <<>>, rest |-> {}, stim |-> {}]

Fresh ==
    /\ shape = <<>> /\ state = <<>>
    /\ timesteps = <<>> /\ i = 0 /\ voltages = <<>> /\ stim = <<>>

Init ==
    /\ pc = "call"
    /\ theta \in Thetas
    /\ constants \in Constants
    /\ summary \in BOOLEAN
    /\ Fresh
    /\ x = NoArray
    /\ sm = NoFrame
    /\ call = 1
    /\ first = NoArray

\* voltage_trace up to the loop: the synthetic batch axis, the grid, the
\* steady-state initialization
Enter ==
    /\ pc = "call"
    /\ pc' = "loop"
    /\ shape' = <<1>> \o Front(theta.shape)
    /\ timesteps' = Arange(0, constants.T, constants.dt)
    /\ voltages' = <<>>
    /\ i' = 0
    /\ stim' = <<>>
    /\ state' = [b \in 1..B |-> InitElem(theta.data[b], constants)]
    /\ UNCHANGED <<theta, constants, summary, x, sm, call, first>>

\* one iteration of the loop, at t = timesteps[i], with the draws z of
\* np.random.randn(*V.shape); all batch elements advance together
Step ==
    /\ pc = "loop"
    /\ i < Len(timesteps)
    /\ \E z \in [1..B -> NoiseVals] :
        state' = [b \in 1..B |->
                     StepElem(theta.data[b], constants, timesteps[i + 1],
                              state[b], z[b])]
    /\ voltages' = Append(voltages, [b \in 1..B |-> state'[b].V])
    /\ stim' = Append(stim, Stim(constants, timesteps[i + 1]))
    /\ i' = i + 1
    /\ UNCHANGED <<pc, theta, constants, summary, shape, timesteps, x, sm,
                   call, first>>

\* the loop is exhausted: np.stack(voltages, axis=-1).squeeze(axis=0), and
\* HH.__call__ goes on to summarize when summary is set.  np.stack raises
\* ValueError on an empty list.
Return ==
    /\ pc = "loop"
    /\ i = Len(timesteps)
    /\ IF voltages = <<>>
       THEN pc' = "raised" /\ UNCHANGED x
       ELSE /\ x' = Squeeze0(Stack(voltages, shape))
            /\ pc' = IF summary THEN "summarize" ELSE "done"
    /\ UNCHANGED <<theta, constants, summary, locals, sm, call, first>>

(***************************************************************************)
(* summarize                                                               *)
(***************************************************************************)
\* np.maximum(a, b), np.sign(a): NaN propagates
FMax(a, b) == IF IsNaN(a) \/ IsNaN(b) THEN NaN ELSE IF a >= b THEN a ELSE b
FSign(a) == IF IsNaN(a) THEN NaN ELSE Sgn(a) * Scale

\* np.diff along the last axis
Diff(row) == [k \in 1..(Len(row) - 1) |-> FSub(row[k + 1], row[k])]

\* np.sum(np.diff(np.sign(np.diff(np.maximum(x, -10)))) < 0, axis=-1)
SpikeCount(row) ==
    LET clipped == [k \in 1..Len(row) |-> FMax(row[k], -10000)]
        dd      == Diff([k \in 1..(Len(row) - 1) |-> FSign(Diff(clipped)[k])])
    IN  Cardinality({k \in 1..Len(dd) : FLt(dd[k], 0)})

RECURSIVE FSum(_)
FSum(row) == IF row = <<>> THEN 0 ELSE FAdd(Head(row), FSum(Tail(row)))

\* row[mask]: the elements at the indices idx, in order
RECURSIVE Take(_, _, _)
Take(row, idx, k) ==
    IF k > Len(row) THEN <<>>
    ELSE (IF k \in idx THEN <<row[k]>> ELSE <<>>) \o Take(row, idx, k + 1)

\* a mean that is 0 on an empty row
MeanOrZero(row) ==
    IF row = <<>> THEN 0 ELSE FDiv(FSum(row), Len(row) * Scale)

\* np.mean: the sum over the count; 0 / 0 = NaN on an empty row
Mean(row) == FDiv(FSum(row), Len(row) * Scale)

\* the k-th central moment, k = 2, 3, 4
Moment(row, k) ==
    LET mu == Mean(row)
        d(j) == FSub(row[j], mu)
        pw(j) == IF k = 2 THEN FMul(d(j), d(j))
                 ELSE IF k = 3 THEN Cube(d(j))
                 ELSE Pow4(d(j))
    IN  Mean([j \in 1..Len(row) |-> pw(j)])

Var(row) == Moment(row, 2)
Std(row) == FSqrt(Var(row))
\* scipy.stats.skew: m3 / m2 ** 1.5, biased
Skew(row) ==
    LET m2 == Moment(row, 2)
    IN  FDiv(Moment(row, 3), FMul(m2, FSqrt(m2)))
\* scipy.stats.kurtosis: m4 / m2 ** 2 - 3 (Fisher), biased
Kurtosis(row) ==
    LET m2 == Moment(row, 2)
    IN  FSub(FDiv(Moment(row, 4), FMul(m2, m2)), 3 * Scale)

\* the masks of summarize over its own grid t, as sets of 1-based indices
RestWindow(c, t) == {k \in 1..Len(t) : c.pad <= 2 * t[k] /\ t[k] < c.pad}
\* StimWindow with its upper end included
StimWindowClosed(c, t) ==
    {k \in 1..Len(t) : c.pad <= t[k] /\ t[k] <= c.T - c.pad}
StimWindow(c, t) == {k \in 1..Len(t) : c.pad <= t[k] /\ t[k] < c.T - c.pad}

\* SummaryRow with the mean and the variance of the stimulus window swapped
SummaryRowSwapped(row, rest, stm) ==
    << SpikeCount(row) * Scale,
       Mean(Take(row, rest, 1)), Std(Take(row, rest, 1)),
       Var(Take(row, stm, 1)), Mean(Take(row, stm, 1)),
       Skew(Take(row, stm, 1)), Kurtosis(Take(row, stm, 1)) >>

\* the seven statistics of one row, stacked along the last axis
SummaryRow(row, rest, stm) ==
    LET r  == Take(row, rest, 1)
        xs == Take(row, stm, 1)
    IN  << SpikeCount(row) * Scale,
           Mean(r), Std(r),
           Mean(xs), Var(xs), Skew(xs), Kurtosis(xs) >>

\* summarize(x, constants).  A boolean mask whose length differs from the
\* last axis of x raises IndexError.
Summarize ==
    /\ pc = "summarize"
    /\ LET t    == Arange(0, constants.T, constants.dt)
           rest == RestWindow(constants, t)
           stm  == StimWindow(constants, t)
       IN  /\ sm' = [x |-> x, t |-> t, rest |-> rest, stim |-> stm]
           /\ IF Len(t) # Last(x.shape)
              THEN pc' = "raised" /\ UNCHANGED x
              ELSE /\ pc' = "done"
                   /\ x' = [shape |-> Front(x.shape) \o <<7>>,
                            data  |-> [b \in 1..Len(x.data) |->
                                          SummaryRow(x.data[b], rest, stm)]]
    /\ UNCHANGED <<theta, constants, summary, locals, call, first>>

\* HH.__call__ is invoked again with the same theta and constants: nothing
\* but what it returned is left of the first invocation
Again ==
    /\ pc = "done"
    /\ call = 1
    /\ call' = 2
    /\ first' = x
    /\ pc' = "call"
    /\ shape' = <<>> /\ state' = <<>>
    /\ timesteps' = <<>> /\ i' = 0 /\ voltages' = <<>> /\ stim' = <<>>
    /\ x' = NoArray
    /\ sm' = NoFrame
    /\ UNCHANGED <<theta, constants, summary>>

Next == Enter \/ Step \/ Return \/ Summarize

Spec == Init /\ [][Next]_vars

(***************************************************************************)
(* Two invocations in a row, raw traces (summary unset).                   *)
(***************************************************************************)
InitTwice ==
    /\ Init
    /\ ~summary
    /\ Len(theta.shape) <= 2
    /\ Len(Arange(0, constants.T, constants.dt)) + 2 <= MaxSteps

NextTwice == Enter \/ Step \/ Return \/ Again

SpecTwice == InitTwice /\ [][NextTwice]_vars

(***************************************************************************)
(* summarize on its own, applied to synthetic traces of MaxLen samples at  *)
(* most, on the grid 0, 1, 2, ... (time_step 1).                           *)
(***************************************************************************)
TraceVals == {-20000, -15000, 0, 5000}

RowsOf(len) == [1..len -> TraceVals]

Traces ==
    UNION {{[shape |-> <<len>>, data |-> <<r>>] : r \in RowsOf(len)} :
              len \in 1..MaxLen}
    \cup {[shape |-> <<2, 3>>, data |-> <<r, <<0, 5000, 0>>>>] :
              r \in RowsOf(3)}

InitSum ==
    /\ pc = "summarize"
    /\ x \in Traces
    /\ constants \in [T : {1000 * Last(x.shape)}, dt : {1000},
                      pad : {0, 1000, 2000}, V_0 : {-70000}, I : {3248}]
    /\ theta = [shape |-> <<8>>, data |-> <<ThetaRows[1]>>]
    /\ summary = TRUE
    /\ Fresh
    /\ sm = NoFrame
    /\ call = 1
    /\ first = NoArray

NextSum == Summarize

SpecSum == InitSum /\ [][NextSum]_vars

(***************************************************************************)
(* Properties                                                              *)
(***************************************************************************)
\* voltage_trace has returned and x is its trace
TraceReturned == pc = "summarize" \/ (pc = "done" /\ ~summary)

\* summarize has returned and x is the summary
Summarized == pc = "done" /\ summary

\* the trace of batch element b as the loop appended it
TraceRow(b) == [k \in 1..Len(voltages) |-> voltages[k][b]]

BatchShape == Front(theta.shape)

\* C1 as stated: the trace has exactly floor(duration / time_step) samples
\* along its time axis, also when duration is no multiple of time_step.
C1_FloorLength ==
    TraceReturned =>
        /\ Last(x.shape) = constants.T \div constants.dt
        /\ \A b \in 1..Len(x.data) :
              Len(x.data[b]) = constants.T \div constants.dt

\* C1, amended: the trace has exactly ceil(duration / time_step) samples,
\* the least N with N * time_step >= duration; that is
\* floor(duration / time_step) when duration is a multiple of time_step and
\* one more otherwise.
C1_CeilLength ==
    TraceReturned =>
        LET len == Last(x.shape)
            T   == constants.T
            dt  == constants.dt
        IN  /\ (len - 1) * dt < T /\ T <= len * dt
            /\ \A b \in 1..Len(x.data) : Len(x.data[b]) = len
            /\ len = (T \div dt) + (IF T % dt = 0 THEN 0 ELSE 1)

C1_Witness ==
    /\ TraceReturned
    /\ constants.T % constants.dt # 0
    /\ Last(x.shape) = 3

\* C2: a parameter array of shape [..., 8] gives a trace of shape [..., T],
\* T the number of points k * dt < duration; [batch, 8] gives [batch, T]
\* and [8] gives [T].
C2_TraceShape ==
    TraceReturned =>
        LET T == Cardinality({k \in 0..constants.T :
                                 k * constants.dt < constants.T})
        IN  /\ x.shape = BatchShape \o <<T>>
            /\ Len(x.data) = Prod(BatchShape)
            /\ \A b \in 1..Len(x.data) : Len(x.data[b]) = T

C2_Witness ==
    /\ TraceReturned
    /\ theta.shape = <<8>>
    /\ x.shape = <<3>>

\* C3: the summary of a trace of voltage_trace has shape [..., 7], the batch
\* dimensions kept, and holds in this order the spike count, the mean and
\* standard deviation over the resting window, and the mean, variance,
\* skewness and kurtosis over the stimulus window.
C3_SummaryShape ==
    Summarized =>
        LET t    == Arange(0, constants.T, constants.dt)
            rest == [b \in 1..B |-> Take(TraceRow(b), RestWindow(constants, t), 1)]
            xs   == [b \in 1..B |-> Take(TraceRow(b), StimWindow(constants, t), 1)]
        IN  /\ x.shape = BatchShape \o <<7>>
            /\ Len(x.data) = Prod(BatchShape)
            /\ \A b \in 1..B :
                  /\ Len(x.data[b]) = 7
                  /\ x.data[b][1] = SpikeCount(TraceRow(b)) * Scale
                  /\ x.data[b][2] = Mean(rest[b])
                  /\ x.data[b][3] = Std(rest[b])
                  /\ x.data[b][4] = Mean(xs[b])
                  /\ x.data[b][5] = Var(xs[b])
                  /\ x.data[b][6] = Skew(xs[b])
                  /\ x.data[b][7] = Kurtosis(xs[b])

C3_Witness ==
    /\ Summarized
    /\ theta.shape = <<2, 8>>
    /\ x.shape = <<2, 7>>
    /\ IsFin(x.data[1][4]) /\ IsFin(x.data[1][5])
    /\ x.data[1][4] # x.data[1][5]

\* the local maxima of a row, each counted once: the maximal runs of equal
\* samples that are higher than the sample before and the sample after
LocalMaxima(row) ==
    Cardinality({j \in 2..(Len(row) - 1) :
        /\ row[j + 1] < row[j]
        /\ \E f \in 2..j :
              /\ \A k \in f..j : row[k] = row[j]
              /\ row[f - 1] < row[f]})

\* C4: the spike count equals the number of local maxima of the trace
\* clipped from below at -10, each peak counted once, also when consecutive
\* samples are equal.
C4_SpikesAreLocalMaxima ==
    pc = "done" =>
        \A b \in 1..Len(x.data) :
            x.data[b][1] =
                Scale * LocalMaxima([k \in 1..Len(sm.x.data[b]) |->
                                        FMax(sm.x.data[b][k], -10000)])

\* C5: with sigma = 0, a second invocation with the same theta and
\* constants returns the same trace as the first, step by step, whatever
\* the draws of either invocation.
C5_NoiselessRepeatable ==
    call = 2 =>
        \A b \in 1..B :
            sigma(theta.data[b]) = 0 =>
                /\ \A k \in 1..Len(voltages) : voltages[k][b] = first.data[b][k]
                /\ pc = "done" => x.data[b] = first.data[b]

C5_Witness ==
    /\ call = 2
    /\ pc = "done"
    /\ B = 2
    /\ sigma(theta.data[2]) = 0
    /\ Len(x.data[2]) >= 2
    /\ IsFin(x.data[2][2])
    /\ x.data[1] # first.data[1]

\* C6: before the first iteration V = initial_voltage for every batch
\* element, n, m, h are their steady states at V - V_t and p is p_inf at the
\* absolute V; the first tau_V and V_inf are computed from these values.
C6_SteadyStateInit ==
    pc = "loop" =>
        \A b \in 1..B :
            LET th == theta.data[b]
                v0 == constants.V_0
                vr == FSub(v0, V_t(th))
            IN  /\ i = 0 =>
                      /\ state[b].V = v0
                      /\ state[b].n = n_inf(vr)
                      /\ state[b].m = m_inf(vr)
                      /\ state[b].h = h_inf(vr)
                      /\ state[b].p = p_inf(v0)
                /\ i = 1 =>
                      /\ state[b].tau_V =
                            TauV(th, n_inf(vr), m_inf(vr), h_inf(vr), p_inf(v0))
                      /\ \E z \in NoiseVals :
                            state[b].V_inf =
                                VInf(th, constants, timesteps[1],
                                     state[b].tau_V, n_inf(vr), m_inf(vr),
                                     h_inf(vr), p_inf(v0), z)

C6_Witness ==
    /\ pc = "loop"
    /\ i = 1
    /\ IsFin(state[1].tau_V) /\ state[1].tau_V > 0
    /\ p_inf(constants.V_0)
           # p_inf(FSub(constants.V_0, V_t(theta.data[1])))

\* the total conductance the first iteration divides by
FirstConductance(th, c) ==
    Conductance(th, InitElem(th, c).n, InitElem(th, c).m,
                InitElem(th, c).h, InitElem(th, c).p)

\* the windows of summarize select no sample
RestEmpty ==
    \A k \in 0..constants.T :
        ~(k * constants.dt < constants.T
          /\ constants.pad <= 2 * k * constants.dt
          /\ k * constants.dt < constants.pad)
StimEmpty ==
    \A k \in 0..constants.T :
        ~(k * constants.dt < constants.T
          /\ constants.pad <= k * constants.dt
          /\ k * constants.dt < constants.T - constants.pad)

C8_WindowsAlign ==
    Summarized =>
        LET stimulated == {k \in 1..Len(stim) : stim[k]}
        IN  /\ sm.t = timesteps
            /\ Len(sm.t) = Len(voltages)
            /\ Len(sm.t) = Last(sm.x.shape)
            /\ sm.stim = stimulated
            /\ sm.rest \cap stimulated = {}
            /\ sm.rest \cap sm.stim = {}

C8_Witness ==
    /\ Summarized
    /\ sm.rest # {}
    /\ sm.stim # {}
    /\ sm.stim # 1..Len(sm.t)
    /\ \E k \in sm.stim : k + 1 \in 1..Len(sm.t) /\ k + 1 \notin sm.stim

\* an iteration of the loop is taken
Iteration == pc = "loop" /\ pc' = "loop" /\ i' = i + 1

\* C9: in every iteration tau_V and V_inf are computed from the gating
\* values of the previous iteration, V is updated from them, V_rel is
\* recomputed from the new V, n, m, h are updated with the new V_rel and p
\* with the new V, and the new V is appended: element k of the trace is the
\* voltage after k + 1 updates, and all batch elements take the same steps.
C9_UpdateOrder ==
    [][Iteration =>
            /\ \A b \in 1..B :
                 LET th  == theta.data[b]
                     dt  == constants.dt
                     old == state[b]
                     new == state'[b]
                 IN  /\ new.tau_V = TauV(th, old.n, old.m, old.h, old.p)
                     /\ \E z \in NoiseVals :
                           new.V_inf = VInf(th, constants, timesteps[i + 1],
                                            new.tau_V, old.n, old.m, old.h,
                                            old.p, z)
                     /\ new.V = ExpUpdate(old.V, new.V_inf, new.tau_V, dt)
                     /\ new.V_rel = FSub(new.V, V_t(th))
                     /\ new.n = ExpUpdate(old.n, n_inf(new.V_rel),
                                          tau_n(new.V_rel), dt)
                     /\ new.m = ExpUpdate(old.m, m_inf(new.V_rel),
                                          tau_m(new.V_rel), dt)
                     /\ new.h = ExpUpdate(old.h, h_inf(new.V_rel),
                                          tau_h(new.V_rel), dt)
                     /\ new.p = ExpUpdate(old.p, p_inf(new.V),
                                          tau_p(tau_max(th), new.V), dt)
                     /\ voltages'[i + 1][b] = new.V
            /\ Len(voltages) = i
            /\ Len(voltages') = i + 1
            /\ SubSeq(voltages', 1, i) = voltages
            /\ Len(voltages'[i + 1]) = B
    ]_vars

C9_Witness ==
    /\ pc = "loop"
    /\ i = 3
    /\ B = 2
    /\ \A b \in 1..B :
          /\ IsFin(state[b].V)
          /\ voltages[1][b] # constants.V_0
          /\ voltages[2][b] # voltages[1][b]
          /\ state[b].V_rel # FSub(voltages[2][b], V_t(theta.data[b]))

\* the conductances and tau_max of a parameter row are strictly positive
Positive(th) ==
    /\ g_Na(th) > 0 /\ g_K(th) > 0 /\ g_M(th) > 0 /\ g_leak(th) > 0
    /\ tau_max(th) > 0

Unit(g) == IsFin(g) /\ 0 <= g /\ g <= Scale

\* C10: with strictly positive conductances and tau_max, n, m, h, p stay
\* within [0, 1] after the initialization and after every iteration, and
\* tau_V is strictly positive at every iteration.
C10_PositiveTau ==
    pc = "loop" =>
        \A b \in 1..B :
            Positive(theta.data[b]) =>
                /\ Unit(state[b].n) /\ Unit(state[b].m)
                /\ Unit(state[b].h) /\ Unit(state[b].p)
                /\ i >= 1 => IsFin(state[b].tau_V) /\ state[b].tau_V > 0

C10_Witness ==
    /\ pc = "loop"
    /\ i >= 3
    /\ Positive(theta.data[1])
    /\ state[1].tau_V > 0
    /\ 0 < state[1].m /\ state[1].m < Scale
    /\ state[1].m # m_inf(FSub(constants.V_0, V_t(theta.data[1])))

====
